---- MODULE Spec2Model ----
(***************************************************************************)
(* Collaboro.  The signaling relay (backend server.js): the three          *)
(* in-memory maps activeUsers, chatRooms and videoRooms, the Socket.io     *)
(* broadcast rooms the handlers subscribe sockets to, and the events each  *)
(* handler emits.  The browser side: VideoConference and JoinCall (call    *)
(* invitation links), JoinWorkspace against the workspace_members table    *)
(* and its policies, and AuthProvider with its SocketService.              *)
(* Every handler runs to completion on the JavaScript event loop, so each  *)
(* handler, and each stretch of an async function between two awaits, is   *)
(* one atomic action.                                                      *)
(***************************************************************************)
EXTENDS Naturals, Sequences, FiniteSets, TLC

\* ------------------------------------------------------------------ bounds
\* Number of distinct room ids the clients use.
NumRooms == 1

\* Socket ids and room ids are both strings on the wire.  Socket.io gives every
\* new connection a fresh id; these are the connections of one run.
SocketIds == {"s1", "s2"}
RoomName == <<"r1", "r2", "r3">>
RoomIds == {RoomName[i] : i \in 1..NumRooms}
\* Every name a Socket.io broadcast room can have in this model.
Names == SocketIds \cup RoomIds

\* Payloads a client may put in message / offer / answer / candidate.
Payloads == {"p1", "p2"}
\* userData a client may send with user:join.
UserData == {[userId |-> "u1", username |-> "alice"]}
\* JavaScript undefined (activeUsers.get(id) of an unknown id, then ?.field).
Undefined == "undefined"
\* A chat:send-message that carries no userId and no username.
NoSender == [userId |-> Undefined, username |-> Undefined]

VARIABLES
    status,       \* socket id -> "new" | "connected" | "closed"
    rooms,        \* Socket.io adapter: room name -> set of subscribed socket ids
    sessions,     \* connectionStateRecovery: socket id -> rooms persisted at close
    activeUsers,  \* Map socketId -> user data
    chatRooms,    \* Map roomId -> Set of socket ids (insertion ordered)
    videoRooms,   \* Map roomId -> Set of socket ids (insertion ordered)
    chatJoined,   \* per connection: rooms whose latest chat event was a join
    videoJoined,  \* per connection: rooms whose latest video event was a join
    userJoined,   \* connections that have sent user:join
    lastEvent,    \* the event the relay handled last
    emitted,      \* the emit calls of that handler, with their recipients
    now,          \* Date.now() of the browsers
    conference,   \* participant -> the VideoConference component it has mounted
    callPage,     \* participant -> the JoinCall page it has open
    rls,          \* the policies of supabase_setup.sql are in force
    workspace_members,  \* table: rows (id, workspace_id, user_id, role)
    issuedLinks,  \* workspace invitation links the dashboards have shown
    joinPage,     \* tab -> the JoinWorkspace page it has open
    session,      \* Supabase auth: the signed-in user of the stored session
    user,         \* AuthProvider state
    profile,      \* AuthProvider state
    pending,      \* asynchronous work of AuthProvider that has not finished
    signOutReturned,  \* signOut() has returned and nobody signed in since
    sockets,      \* the sockets io() has created in this page, by number
    serviceSocket,    \* SocketService.socket: a socket number, or 0 for null
    serviceConnected, \* SocketService.connected
    instances,    \* client -> VideoConference components it has mounted so far
    conferenceOpen,   \* client -> a VideoConference is mounted now
    mediaPending, \* (client, instance): startVideoCall waits for getUserMedia
    listeners,    \* client -> instances whose listeners are on its socket
    peersRef,     \* client -> instance -> Map remote socket id -> peer connection
    outbox,       \* client -> events it has emitted, not yet at the relay
    inbox,        \* client -> events the relay has emitted to it, not yet handled
    arrived,      \* the client event the relay is handling
    offersReceived,   \* (client, X): in a call, the client has handled an offer from X
    answersDelivered  \* (X, client): the relay has emitted an answer of the client to X

relayVars == <<status, rooms, sessions, activeUsers, chatRooms, videoRooms,
               chatJoined, videoJoined, userJoined, lastEvent, emitted>>
callVars == <<now, conference, callPage>>
joinVars == <<rls, workspace_members, issuedLinks, joinPage>>
authVars == <<session, user, profile, pending, signOutReturned>>
serviceVars == <<sockets, serviceSocket, serviceConnected>>
clientVars == <<authVars, serviceVars>>
signalVars == <<instances, conferenceOpen, mediaPending, listeners, peersRef,
                outbox, inbox, arrived, offersReceived, answersDelivered>>
vars == <<relayVars, callVars, joinVars, clientVars, signalVars>>
\* What the relay's handlers, the call pages, the join pages and the
\* AuthProvider with its SocketService do not touch.
notRelay == <<callVars, joinVars, clientVars, signalVars>>
notCall == <<relayVars, joinVars, clientVars, signalVars>>
notJoin == <<relayVars, callVars, clientVars, signalVars>>
notClient == <<relayVars, callVars, joinVars, signalVars>>
notSignal == <<relayVars, callVars, joinVars, clientVars>>

\* ------------------------------------------------- JavaScript Set and Map
\* A JavaScript Set of socket ids: add is idempotent, delete of a missing id is a
\* no-op.  Iteration order (insertion order) is observed by no handler, so the
\* Set is kept as a set and Array.from lists it in one fixed order.
EmptySet == {}
SetHas(S, x) == x \in S
SetAdd(S, x) == S \cup {x}
\* A delete that forgets to remove the id.
SetDeleteKeeps(S, x) == S
SetDelete(S, x) == S \ {x}
SetSize(S) == Cardinality(S)
RECURSIVE ArrayFrom(_)
ArrayFrom(S) ==
    IF S = {} THEN <<>>
    ELSE LET x == CHOOSE y \in S : TRUE IN <<x>> \o ArrayFrom(S \ {x})

MapHas(M, k) == k \in DOMAIN M
MapSet(M, k, v) == [x \in (DOMAIN M) \cup {k} |-> IF x = k THEN v ELSE M[x]]
MapDelete(M, k) == [x \in (DOMAIN M) \ {k} |-> M[x]]
EmptyMap == [x \in {} |-> {}]

\* activeUsers.get(id)?.userId / ?.username
UserIdOf(id) == IF MapHas(activeUsers, id) THEN activeUsers[id].userId ELSE Undefined
UsernameOf(id) == IF MapHas(activeUsers, id) THEN activeUsers[id].username ELSE Undefined

\* ------------------------------------------------------ Socket.io adapter
\* socket.join(room) / socket.leave(room)
SocketJoin(rms, s, r) == [rms EXCEPT ![r] = @ \cup {s}]
SocketLeave(rms, s, r) == [rms EXCEPT ![r] = @ \ {s}]
\* leaveAll, run by Socket.io before the 'disconnect' listeners
LeaveAll(rms, s) == [n \in Names |-> rms[n] \ {s}]

\* io.to(room).emit(event, data): every socket subscribed to room.
IoTo(rms, room, event, data) ==
    [event |-> event, room |-> room, data |-> data, recipients |-> rms[room]]
\* socket.to(room).emit(event, data): the same, except the socket itself.
SocketTo(rms, s, room, event, data) ==
    [event |-> event, room |-> room, data |-> data, recipients |-> rms[room] \ {s}]

Event(type, s, arg, payload) ==
    [type |-> type, socket |-> s, arg |-> arg, payload |-> payload]
NoArg == "none"

TypeOK ==
    /\ status \in [SocketIds -> {"new", "connected", "closed"}]
    /\ rooms \in [Names -> SUBSET SocketIds]
    /\ DOMAIN sessions \subseteq SocketIds
    /\ DOMAIN activeUsers \subseteq SocketIds
    /\ DOMAIN chatRooms \subseteq RoomIds
    /\ DOMAIN videoRooms \subseteq RoomIds
    /\ chatJoined \in [SocketIds -> SUBSET RoomIds]
    /\ videoJoined \in [SocketIds -> SUBSET RoomIds]
    /\ userJoined \subseteq SocketIds

InitRelay ==
    /\ status = [s \in SocketIds |-> "new"]
    /\ rooms = [n \in Names |-> {}]
    /\ sessions = [x \in {} |-> {}]
    /\ activeUsers = [x \in {} |-> Undefined]
    /\ chatRooms = EmptyMap
    /\ videoRooms = EmptyMap
    /\ chatJoined = [s \in SocketIds |-> {}]
    /\ videoJoined = [s \in SocketIds |-> {}]
    /\ userJoined = {}
    /\ lastEvent = Event("listen", NoArg, NoArg, NoArg)
    /\ emitted = {}

\* io.on('connection'): a new client; Socket.io subscribes it to the room
\* named by its own id.  The handler itself only logs.
Connection(s) ==
    /\ status[s] = "new"
    /\ status' = [status EXCEPT ![s] = "connected"]
    /\ rooms' = SocketJoin(rooms, s, s)
    /\ lastEvent' = Event("connection", s, NoArg, NoArg)
    /\ emitted' = {}
    /\ UNCHANGED <<sessions, activeUsers, userJoined, chatRooms, videoRooms, chatJoined,
                   videoJoined>>
    /\ UNCHANGED notRelay

\* socket.on('user:join')
UserJoin(s, userData) ==
    /\ status[s] = "connected"
    /\ activeUsers' = MapSet(activeUsers, s, userData)
    /\ userJoined' = userJoined \cup {s}
    /\ lastEvent' = Event("user:join", s, NoArg, userData)
    /\ emitted' = {}
    /\ UNCHANGED <<status, rooms, sessions, chatRooms, videoRooms, chatJoined, videoJoined>>
    /\ UNCHANGED notRelay

\* socket.on('chat:join-room')
ChatJoinRoom(s, roomId) ==
    /\ status[s] = "connected"
    /\ rooms' = SocketJoin(rooms, s, roomId)
    /\ chatRooms' =
         LET withRoom == IF ~MapHas(chatRooms, roomId)
                         THEN MapSet(chatRooms, roomId, EmptySet)
                         ELSE chatRooms
         IN  MapSet(withRoom, roomId, SetAdd(withRoom[roomId], s))
    /\ emitted' =
         { SocketTo(rooms', s, roomId, "chat:user-joined",
                    [userId |-> UserIdOf(s), username |-> UsernameOf(s)]),
           IoTo(rooms', s, "chat:room-joined",
                [roomId |-> roomId, userCount |-> SetSize(chatRooms'[roomId])]) }
    /\ chatJoined' = [chatJoined EXCEPT ![s] = @ \cup {roomId}]
    /\ lastEvent' = Event("chat:join-room", s, roomId, NoArg)
    /\ UNCHANGED <<status, sessions, activeUsers, userJoined, videoRooms, videoJoined>>
    /\ UNCHANGED notRelay

\* A chat:send-message that also enrols the sender in the room it writes to.
ChatSendMessageEnrols(s, roomId, message, sender) ==
    /\ status[s] = "connected"
    /\ emitted' =
         { IoTo(rooms, roomId, "chat:receive-message",
                [roomId |-> roomId, message |-> message,
                 userId |-> sender.userId, username |-> sender.username]) }
    /\ chatRooms' = MapSet(chatRooms, roomId,
                           IF MapHas(chatRooms, roomId)
                           THEN SetAdd(chatRooms[roomId], s) ELSE {s})
    /\ lastEvent' = Event("chat:send-message", s, roomId, message)
    /\ UNCHANGED <<status, rooms, sessions, activeUsers, userJoined, videoRooms,
                   chatJoined, videoJoined>>
    /\ UNCHANGED notRelay

\* socket.on('chat:send-message'); data = { roomId, message, userId, username }.
\* The id and timestamp fields (Date.now) carry no state and are left out.
ChatSendMessage(s, roomId, message, sender) ==
    /\ status[s] = "connected"
    /\ emitted' =
         { IoTo(rooms, roomId, "chat:receive-message",
                [roomId |-> roomId, message |-> message,
                 userId |-> IF sender.userId # Undefined THEN sender.userId
                            ELSE UserIdOf(s),
                 username |-> IF sender.username # Undefined THEN sender.username
                              ELSE UsernameOf(s)]) }
    /\ lastEvent' = Event("chat:send-message", s, roomId, message)
    /\ UNCHANGED <<status, rooms, sessions, activeUsers, userJoined, chatRooms, videoRooms,
                   chatJoined, videoJoined>>
    /\ UNCHANGED notRelay

\* socket.on('chat:leave-room')
ChatLeaveRoom(s, roomId) ==
    /\ status[s] = "connected"
    /\ rooms' = SocketLeave(rooms, s, roomId)
    /\ chatRooms' =
         IF MapHas(chatRooms, roomId)
         THEN LET rest == SetDelete(chatRooms[roomId], s)
              IN  IF SetSize(rest) = 0
                  THEN MapDelete(chatRooms, roomId)
                  ELSE MapSet(chatRooms, roomId, rest)
         ELSE chatRooms
    /\ emitted' =
         { SocketTo(rooms', s, roomId, "chat:user-left",
                    [userId |-> UserIdOf(s), username |-> UsernameOf(s)]) }
    /\ chatJoined' = [chatJoined EXCEPT ![s] = @ \ {roomId}]
    /\ lastEvent' = Event("chat:leave-room", s, roomId, NoArg)
    /\ UNCHANGED <<status, sessions, activeUsers, userJoined, videoRooms, videoJoined>>
    /\ UNCHANGED notRelay

\* The list without its filter: the joiner is listed with the others.
OtherUsersUnfiltered(S, s) ==
    LET all == ArrayFrom(S)
    IN  [i \in DOMAIN all |->
            [socketId |-> all[i], userId |-> UserIdOf(all[i]),
             username |-> UsernameOf(all[i])]]

\* Array.from(videoRooms.get(roomId)).filter(id => id !== socket.id).map(...)
OtherUsers(S, s) ==
    LET others == SelectSeq(ArrayFrom(S), LAMBDA id : id # s)
    IN  [i \in DOMAIN others |->
            [socketId |-> others[i], userId |-> UserIdOf(others[i]),
             username |-> UsernameOf(others[i])]]

\* socket.on('video:join-room')
VideoJoinRoom(s, roomId) ==
    /\ status[s] = "connected"
    /\ rooms' = SocketJoin(rooms, s, roomId)
    /\ videoRooms' =
         LET withRoom == IF ~MapHas(videoRooms, roomId)
                         THEN MapSet(videoRooms, roomId, EmptySet)
                         ELSE videoRooms
         IN  MapSet(withRoom, roomId, SetAdd(withRoom[roomId], s))
    /\ emitted' =
         { IoTo(rooms', s, "video:all-users", OtherUsers(videoRooms'[roomId], s)),
           SocketTo(rooms', s, roomId, "video:user-joined",
                    [socketId |-> s, userId |-> UserIdOf(s),
                     username |-> UsernameOf(s)]) }
    /\ videoJoined' = [videoJoined EXCEPT ![s] = @ \cup {roomId}]
    /\ lastEvent' = Event("video:join-room", s, roomId, NoArg)
    /\ UNCHANGED <<status, sessions, activeUsers, userJoined, chatRooms, chatJoined>>
    /\ UNCHANGED notRelay

\* socket.on('video:send-offer'); data = { offer, to }
VideoSendOffer(s, offer, to) ==
    /\ status[s] = "connected"
    /\ emitted' =
         { IoTo(rooms, to, "video:receive-offer",
                [payload |-> offer, from |-> s, username |-> UsernameOf(s)]) }
    /\ lastEvent' = Event("video:send-offer", s, to, offer)
    /\ UNCHANGED <<status, rooms, sessions, activeUsers, userJoined, chatRooms, videoRooms,
                   chatJoined, videoJoined>>
    /\ UNCHANGED notRelay

\* An answer relayed with the addressee as its sender.
VideoSendAnswerFromTarget(s, answer, to) ==
    /\ status[s] = "connected"
    /\ emitted' =
         { IoTo(rooms, to, "video:receive-answer", [payload |-> answer, from |-> to]) }
    /\ lastEvent' = Event("video:send-answer", s, to, answer)
    /\ UNCHANGED <<status, rooms, sessions, activeUsers, userJoined, chatRooms, videoRooms,
                   chatJoined, videoJoined>>
    /\ UNCHANGED notRelay

\* socket.on('video:send-answer'); data = { answer, to }
VideoSendAnswer(s, answer, to) ==
    /\ status[s] = "connected"
    /\ emitted' =
         { IoTo(rooms, to, "video:receive-answer", [payload |-> answer, from |-> s]) }
    /\ lastEvent' = Event("video:send-answer", s, to, answer)
    /\ UNCHANGED <<status, rooms, sessions, activeUsers, userJoined, chatRooms, videoRooms,
                   chatJoined, videoJoined>>
    /\ UNCHANGED notRelay

\* socket.on('video:ice-candidate'); data = { candidate, to }
VideoIceCandidate(s, candidate, to) ==
    /\ status[s] = "connected"
    /\ emitted' =
         { IoTo(rooms, to, "video:ice-candidate", [payload |-> candidate, from |-> s]) }
    /\ lastEvent' = Event("video:ice-candidate", s, to, candidate)
    /\ UNCHANGED <<status, rooms, sessions, activeUsers, userJoined, chatRooms, videoRooms,
                   chatJoined, videoJoined>>
    /\ UNCHANGED notRelay

\* socket.on('video:leave-room')
VideoLeaveRoom(s, roomId) ==
    /\ status[s] = "connected"
    /\ rooms' = SocketLeave(rooms, s, roomId)
    /\ videoRooms' =
         IF MapHas(videoRooms, roomId)
         THEN LET rest == SetDelete(videoRooms[roomId], s)
              IN  IF SetSize(rest) = 0
                  THEN MapDelete(videoRooms, roomId)
                  ELSE MapSet(videoRooms, roomId, rest)
         ELSE videoRooms
    /\ emitted' =
         { SocketTo(rooms', s, roomId, "video:user-left",
                    [socketId |-> s, userId |-> UserIdOf(s),
                     username |-> UsernameOf(s)]) }
    /\ videoJoined' = [videoJoined EXCEPT ![s] = @ \ {roomId}]
    /\ lastEvent' = Event("video:leave-room", s, roomId, NoArg)
    /\ UNCHANGED <<status, sessions, activeUsers, userJoined, chatRooms, chatJoined>>
    /\ UNCHANGED notRelay

\* A disconnect handler that leaves the rooms as they are.
RemoveFromRoomsSkipped(M, s) == M

\* chatRooms.forEach / videoRooms.forEach of the disconnect handler:
\* users.delete(socket.id) in every room that has it; no room is deleted.
RemoveFromRooms(M, s) == [r \in DOMAIN M |-> SetDelete(M[r], s)]
\* The rooms of a map whose forEach body runs for socket s.
RoomsHaving(M, s) == {r \in DOMAIN M : SetHas(M[r], s)}

\* socket.on('disconnect').  Socket.io has already taken the socket out of
\* every broadcast room; with connectionStateRecovery it has first persisted
\* the socket's rooms when the close is one a client can recover from
\* (transport close, ping timeout), not when the client disconnected itself.
Disconnect(s, recoverable) ==
    /\ status[s] = "connected"
    /\ status' = [status EXCEPT ![s] = "closed"]
    /\ sessions' = IF recoverable
                   THEN MapSet(sessions, s, {n \in Names : s \in rooms[n]})
                   ELSE sessions
    /\ rooms' = LeaveAll(rooms, s)
    /\ chatRooms' = RemoveFromRooms(chatRooms, s)
    /\ videoRooms' = RemoveFromRooms(videoRooms, s)
    /\ emitted' =
         { SocketTo(rooms', s, r, "chat:user-left",
                    [userId |-> UserIdOf(s), username |-> UsernameOf(s)])
             : r \in RoomsHaving(chatRooms, s) }
         \cup
         { SocketTo(rooms', s, r, "video:user-left",
                    [socketId |-> s, userId |-> UserIdOf(s),
                     username |-> UsernameOf(s)])
             : r \in RoomsHaving(videoRooms, s) }
    /\ activeUsers' = MapDelete(activeUsers, s)
    /\ userJoined' = userJoined \ {s}
    /\ chatJoined' = [chatJoined EXCEPT ![s] = {}]
    /\ videoJoined' = [videoJoined EXCEPT ![s] = {}]
    /\ lastEvent' = Event("disconnect", s, NoArg, NoArg)
    /\ UNCHANGED notRelay

\* Recovery that would also put the socket back into the chatRooms sets.
RecoveryRestoresMaps(s) ==
    /\ status[s] = "closed"
    /\ MapHas(sessions, s)
    /\ status' = [status EXCEPT ![s] = "connected"]
    /\ rooms' = [n \in Names |-> IF n \in sessions[s] THEN rooms[n] \cup {s} ELSE rooms[n]]
    /\ sessions' = MapDelete(sessions, s)
    /\ lastEvent' = Event("connection", s, "recovered", NoArg)
    /\ emitted' = {}
    /\ chatRooms' = [r \in DOMAIN chatRooms |->
                       IF r \in sessions[s] THEN SetAdd(chatRooms[r], s) ELSE chatRooms[r]]
    /\ UNCHANGED <<activeUsers, userJoined, videoRooms, chatJoined, videoJoined>>
    /\ UNCHANGED notRelay

\* io.on('connection') for a client that reconnects within
\* maxDisconnectionDuration: Socket.io restores the socket id and the rooms.
\* A session is recoverable when the connection closed for a reason Socket.io
\* recovers from and the client holds the offset of a broadcast it received.
Recovery(s) ==
    /\ status[s] = "closed"
    /\ MapHas(sessions, s)
    /\ status' = [status EXCEPT ![s] = "connected"]
    /\ rooms' = [n \in Names |-> IF n \in sessions[s] THEN rooms[n] \cup {s} ELSE rooms[n]]
    /\ sessions' = MapDelete(sessions, s)
    /\ lastEvent' = Event("connection", s, "recovered", NoArg)
    /\ emitted' = {}
    /\ UNCHANGED <<activeUsers, userJoined, chatRooms, videoRooms, chatJoined, videoJoined>>
    /\ UNCHANGED notRelay

\* app.get('/'): the sizes of the three maps.
MapSize(M) == Cardinality(DOMAIN M)
GetRoot ==
    [activeUsers |-> MapSize(activeUsers),
     chatRooms |-> MapSize(chatRooms),
     videoRooms |-> MapSize(videoRooms)]

\* ------------------------------------------------- video call invitations
\* Browser-side strings are sequences of tokens, so that building a link and
\* reading its query parameters are computed, not assumed.
Str(token) == <<token>>
\* null and the empty string: both are falsy in `if (!roomId)`.
Null == << >>
Digit == <<"0", "1", "2", "3", "4", "5", "6", "7", "8", "9">>
\* `${n}` of a non-negative integer.
RECURSIVE NumToStr(_)
NumToStr(n) ==
    IF n < 10 THEN Str(Digit[n + 1])
    ELSE NumToStr(n \div 10) \o Str(Digit[(n % 10) + 1])

\* The last Date.now() a run can read.
MaxClock == 3
\* Longest room id (in tokens) a call link may carry.
MaxRoomIdLen == 5
Browsers == {"b1", "b2"}
WorkspaceIds == {"w1", "w2"}
CallModes == {"conference", "one-on-one"}
Origin == "https://app"

\* searchParams.get(key) of a URL: the query is what follows "?", its
\* parameters are separated by "&", a parameter is key "=" value.
RECURSIVE IndexOf(_, _, _)
IndexOf(seq, token, i) ==
    IF i > Len(seq) THEN 0
    ELSE IF seq[i] = token THEN i
    ELSE IndexOf(seq, token, i + 1)
Query(url) ==
    LET q == IndexOf(url, "?", 1)
    IN  IF q = 0 THEN Null ELSE SubSeq(url, q + 1, Len(url))
RECURSIVE SearchParamsGetIn(_, _)
SearchParamsGetIn(query, key) ==
    IF query = Null THEN Null
    ELSE LET amp == IndexOf(query, "&", 1)
             param == IF amp = 0 THEN query ELSE SubSeq(query, 1, amp - 1)
             rest == IF amp = 0 THEN Null ELSE SubSeq(query, amp + 1, Len(query))
         IN  IF Len(param) >= 2 /\ param[1] = key /\ param[2] = "="
             THEN SubSeq(param, 3, Len(param))
             ELSE SearchParamsGetIn(rest, key)
SearchParamsGet(url, key) == SearchParamsGetIn(Query(url), key)

\* generateInviteLink: `${workspaceId}-${Date.now()}` is the room of the link.
GenerateInviteLink(workspaceId, callMode, t) ==
    LET roomId == workspaceId \o Str("-") \o NumToStr(t)
    IN  <<Origin, "/join-call", "?", "room", "=">> \o roomId
            \o <<"&", "mode", "=", callMode>>

ClosedConference ==
    [isOpen |-> FALSE, workspaceId |-> Null, callMode |-> "conference",
     inviteLink |-> Null, media |-> "none", joinedRoom |-> Null]
\* The VideoConference effect for (isOpen, workspaceId): startVideoCall() is
\* left waiting for getUserMedia, generateInviteLink() sets the link.
MountVideoConference(workspaceId, callMode, t) ==
    [isOpen |-> TRUE, workspaceId |-> workspaceId, callMode |-> callMode,
     inviteLink |-> GenerateInviteLink(workspaceId, callMode, t),
     media |-> "pending", joinedRoom |-> Null]
NoCallPage == [url |-> Null, state |-> "none"]

InitCall ==
    /\ now = 1
    /\ conference = [b \in Browsers |-> ClosedConference]
    /\ callPage = [b \in Browsers |-> NoCallPage]

\* Time passes between two readings of Date.now().
Tick ==
    /\ now < MaxClock
    /\ now' = now + 1
    /\ UNCHANGED <<conference, callPage>>
    /\ UNCHANGED notCall

\* The dashboard opens VideoConference for the selected workspace.
OpenVideoConference(b, w, callMode) ==
    /\ ~conference[b].isOpen
    /\ callPage[b].state = "none"
    /\ conference' = [conference EXCEPT ![b] = MountVideoConference(Str(w), callMode, now)]
    /\ UNCHANGED <<now, callPage>>
    /\ UNCHANGED notCall

\* startVideoCall after getUserMedia resolved: video:join-room is sent with the
\* component's workspaceId.
StartVideoCall(b) ==
    /\ conference[b].media = "pending"
    /\ conference' = [conference EXCEPT ![b].media = "live",
                                        ![b].joinedRoom = conference[b].workspaceId]
    /\ UNCHANGED <<now, callPage>>
    /\ UNCHANGED notCall

\* startVideoCall after getUserMedia rejected: the error is shown, no join.
StartVideoCallFails(b) ==
    /\ conference[b].media = "pending"
    /\ conference' = [conference EXCEPT ![b].media = "error"]
    /\ UNCHANGED <<now, callPage>>
    /\ UNCHANGED notCall

\* handleEndCall: cleanup() sends video:leave-room, onClose() closes the
\* component (and leaves the JoinCall page, when it was opened from one).
EndCall(b) ==
    /\ conference[b].isOpen
    /\ conference[b].media # "pending"
    /\ conference' = [conference EXCEPT ![b] = ClosedConference]
    /\ callPage' = [callPage EXCEPT ![b] = NoCallPage]
    /\ UNCHANGED now
    /\ UNCHANGED notCall

\* JoinCall: handleJoinCall on the page opened from a link.
JoinCall(b, url, signedIn) ==
    /\ ~conference[b].isOpen
    /\ conference[b].media # "pending"
    /\ callPage[b].state = "none"
    /\ LET roomId == SearchParamsGet(url, "room")
           modeParam == SearchParamsGet(url, "mode")
           mode == IF modeParam = Null THEN "conference" ELSE modeParam[1]
       IN  /\ Len(roomId) <= MaxRoomIdLen
           /\ IF roomId = Null
              THEN /\ callPage' = [callPage EXCEPT ![b] = [url |-> url, state |-> "error"]]
                   /\ UNCHANGED conference
              ELSE IF ~signedIn
              THEN /\ callPage' = [callPage EXCEPT ![b] = [url |-> url, state |-> "sign-in"]]
                   /\ UNCHANGED conference
              ELSE /\ callPage' = [callPage EXCEPT ![b] = [url |-> url, state |-> "video"]]
                   /\ conference' =
                        [conference EXCEPT ![b] = MountVideoConference(roomId, mode, now)]
    /\ UNCHANGED now
    /\ UNCHANGED notCall

\* "Go to Sign In" / "Return to Dashboard": navigate('/').
LeaveCallPage(b) ==
    /\ callPage[b].state \in {"error", "sign-in"}
    /\ callPage' = [callPage EXCEPT ![b] = NoCallPage]
    /\ UNCHANGED <<now, conference>>
    /\ UNCHANGED notCall

\* Links a user can paste: the invite link a conference shows, or the bare
\* join-call address.
Links == {conference[b].inviteLink : b \in {x \in Browsers : conference[x].isOpen}}
             \cup {<<Origin, "/join-call">>}

NextCall ==
    \/ Tick
    \/ \E b \in Browsers, w \in WorkspaceIds, m \in CallModes : OpenVideoConference(b, w, m)
    \/ \E b \in Browsers : StartVideoCall(b)
    \/ \E b \in Browsers : StartVideoCallFails(b)
    \/ \E b \in Browsers : EndCall(b)
    \/ \E b \in Browsers, url \in Links, signedIn \in BOOLEAN : JoinCall(b, url, signedIn)
    \/ \E b \in Browsers : LeaveCallPage(b)

\* ------------------------------------------------- workspace invitations
Users == {"u1", "u2"}
\* useAuth().user of a visitor who is not signed in.
NoUser == "null"
Tabs == {"t1", "t2"}
\* The workspaces table: every workspace was created by u1, whom
\* createWorkspace added as its admin.
InitialMembers ==
    {[id |-> 1, workspace_id |-> "w1", user_id |-> "u1", role |-> "admin"],
     [id |-> 2, workspace_id |-> "w2", user_id |-> "u1", role |-> "admin"]}
\* A workspace id no row of workspaces has.
UnknownWorkspace == "w0"

\* btoa: an encoding of the text, never the text itself.
Btoa(text) == Str("base64") \o text
\* generateWorkspaceInviteLink
GenerateWorkspaceInviteLink(w, t) ==
    LET inviteCode == Btoa(Str(w) \o Str("-") \o NumToStr(t))
    IN  <<Origin, "/join-workspace", "?", "code", "=">> \o inviteCode
            \o <<"&", "workspace", "=", w>>
\* A link somebody edited or made up: any code with any workspace id.
EditedLinks ==
    {<<Origin, "/join-workspace", "?", "code", "=">> \o SearchParamsGet(l, "code")
         \o <<"&", "workspace", "=", w>>
       : l \in issuedLinks, w \in WorkspaceIds \cup {UnknownWorkspace}}
    \cup {<<Origin, "/join-workspace", "?", "code", "=", "x", "&", "workspace", "=", w>>
            : w \in WorkspaceIds}
    \cup {<<Origin, "/join-workspace", "?", "workspace", "=", "w1">>}

\* Row-level security of supabase_setup.sql, as the policies read.
\* "Users can view workspaces they're members of"
CanSelectWorkspace(uid, w) ==
    ~rls \/ w \in {m.workspace_id : m \in {x \in workspace_members : x.user_id = uid}}
\* "Users can view workspace members"
CanSelectMember(uid, row) ==
    ~rls \/ row.workspace_id \in
              {m.workspace_id : m \in {x \in workspace_members : x.user_id = uid}}
\* "Users can join workspaces (insert themselves)" or "Admins can add members"
CanInsertMember(uid, row) ==
    \/ ~rls
    \/ uid = row.user_id
    \/ \E m \in workspace_members :
          m.workspace_id = row.workspace_id /\ m.user_id = uid /\ m.role = "admin"
\* UNIQUE(workspace_id, user_id)
UniqueViolation(row) ==
    \E m \in workspace_members :
        m.workspace_id = row.workspace_id /\ m.user_id = row.user_id
\* .select('*').eq(...).single(): the row when exactly one is returned.
Single(found) == IF Cardinality(found) = 1 THEN found ELSE {}

NoJoinPage ==
    [pc |-> "none", user |-> NoUser, workspaceId |-> Null, inviteCode |-> Null,
     status |-> "joining", message |-> "none", wasMember |-> FALSE]

\* The client talks to the Supabase project its environment names; the
\* policy section of supabase_setup.sql is in force there, or it is not.
InitJoin ==
    /\ rls \in BOOLEAN
    /\ workspace_members = InitialMembers
    /\ issuedLinks = {}
    /\ joinPage = [t \in Tabs |-> NoJoinPage]

\* The dashboard of a member shows the invitation link of a workspace.
ShowWorkspaceInvite(w) ==
    /\ issuedLinks' = issuedLinks \cup {GenerateWorkspaceInviteLink(w, now)}
    /\ UNCHANGED <<rls, workspace_members, joinPage>>
    /\ UNCHANGED notJoin

\* handleJoinWorkspace up to its first await.
JoinWorkspace(t, url, visitor) ==
    /\ joinPage[t].pc = "none"
    /\ LET workspaceId == SearchParamsGet(url, "workspace")
           inviteCode == SearchParamsGet(url, "code")
           page == [NoJoinPage EXCEPT !.user = visitor, !.workspaceId = workspaceId,
                                      !.inviteCode = inviteCode]
       IN  joinPage' = [joinPage EXCEPT ![t] =
             IF workspaceId = Null \/ inviteCode = Null
             THEN [page EXCEPT !.pc = "done", !.status = "error",
                               !.message = "invalid-link"]
             ELSE IF visitor = NoUser
             THEN [page EXCEPT !.pc = "done", !.message = "sign-in"]
             ELSE [page EXCEPT !.pc = "select-workspace",
                               !.wasMember = \E m \in workspace_members :
                                   m.workspace_id = workspaceId[1] /\ m.user_id = visitor]]
    /\ UNCHANGED <<rls, workspace_members, issuedLinks>>
    /\ UNCHANGED notJoin

\* from('workspaces').select('*').eq('id', workspaceId).single()
SelectWorkspace(t) ==
    /\ joinPage[t].pc = "select-workspace"
    /\ LET w == joinPage[t].workspaceId[1]
           found == {x \in WorkspaceIds : x = w /\ CanSelectWorkspace(joinPage[t].user, x)}
       IN  joinPage' = [joinPage EXCEPT ![t] =
             IF Single(found) = {}
             THEN [@ EXCEPT !.pc = "done", !.status = "error", !.message = "ws-error"]
             ELSE [@ EXCEPT !.pc = "select-member"]]
    /\ UNCHANGED <<rls, workspace_members, issuedLinks>>
    /\ UNCHANGED notJoin

\* from('workspace_members').select('*').eq(...).eq(...).single()
SelectExistingMember(t) ==
    /\ joinPage[t].pc = "select-member"
    /\ LET uid == joinPage[t].user
           found == {m \in workspace_members :
                        /\ m.workspace_id = joinPage[t].workspaceId[1]
                        /\ m.user_id = uid
                        /\ CanSelectMember(uid, m)}
       IN  joinPage' = [joinPage EXCEPT ![t] =
             IF Single(found) # {}
             THEN [@ EXCEPT !.pc = "done", !.status = "success",
                            !.message = "already-member"]
             ELSE [@ EXCEPT !.pc = "insert"]]
    /\ UNCHANGED <<rls, workspace_members, issuedLinks>>
    /\ UNCHANGED notJoin

\* The insert without the table's UNIQUE constraint.
InsertMemberNoUnique(t) ==
    /\ joinPage[t].pc = "insert"
    /\ LET row == [id |-> Cardinality(workspace_members) + 1,
                   workspace_id |-> joinPage[t].workspaceId[1],
                   user_id |-> joinPage[t].user, role |-> "member"]
       IN  IF CanInsertMember(joinPage[t].user, row)
           THEN /\ workspace_members' = workspace_members \cup {row}
                /\ joinPage' = [joinPage EXCEPT ![t].pc = "done", ![t].status = "success",
                                                ![t].message = "joined"]
           ELSE /\ joinPage' = [joinPage EXCEPT ![t].pc = "done", ![t].status = "error",
                                                ![t].message = "add-error"]
                /\ UNCHANGED workspace_members
    /\ UNCHANGED <<rls, issuedLinks>>
    /\ UNCHANGED notJoin

\* from('workspace_members').insert([{workspace_id, user_id, role: 'member'}])
InsertMember(t) ==
    /\ joinPage[t].pc = "insert"
    /\ LET row == [id |-> Cardinality(workspace_members) + 1,
                   workspace_id |-> joinPage[t].workspaceId[1],
                   user_id |-> joinPage[t].user, role |-> "member"]
       IN  IF CanInsertMember(joinPage[t].user, row) /\ ~UniqueViolation(row)
           THEN /\ workspace_members' = workspace_members \cup {row}
                /\ joinPage' = [joinPage EXCEPT ![t].pc = "done", ![t].status = "success",
                                                ![t].message = "joined"]
           ELSE /\ joinPage' = [joinPage EXCEPT ![t].pc = "done", ![t].status = "error",
                                                ![t].message = "add-error"]
                /\ UNCHANGED workspace_members
    /\ UNCHANGED <<rls, issuedLinks>>
    /\ UNCHANGED notJoin

\* navigate('/'): the page is left.
LeaveJoinPage(t) ==
    /\ joinPage[t].pc = "done"
    /\ joinPage' = [joinPage EXCEPT ![t] = NoJoinPage]
    /\ UNCHANGED <<rls, workspace_members, issuedLinks>>
    /\ UNCHANGED notJoin

NextJoin ==
    \/ \E w \in WorkspaceIds : ShowWorkspaceInvite(w)
    \/ \E t \in Tabs, url \in issuedLinks \cup EditedLinks, u \in Users \cup {NoUser} :
          JoinWorkspace(t, url, u)
    \/ \E t \in Tabs : SelectWorkspace(t)
    \/ \E t \in Tabs : SelectExistingMember(t)
    \/ \E t \in Tabs : InsertMember(t)
    \/ \E t \in Tabs : LeaveJoinPage(t)

\* ------------------------------------------- AuthProvider and SocketService
\* How many sockets io() may create in one page.
MaxSockets == 3
\* The account that signs in.
Account == "u1"
SocketNumbers == 1..MaxSockets
\* A socket the client has not closed: connected, connecting or reconnecting.
Alive(k) == sockets[k].state \in {"connecting", "connected"}
Created == {k \in SocketNumbers : sockets[k].state # "unused"}
NoSocket == [state |-> "unused", userJoinSent |-> FALSE]

\* SocketService.connect(userData)
Connect ==
    IF serviceSocket # 0 /\ sockets[serviceSocket].state = "connected"
    THEN UNCHANGED serviceVars
    ELSE /\ Cardinality(Created) < MaxSockets
         /\ LET k == Cardinality(Created) + 1
            IN  /\ sockets' = [sockets EXCEPT ![k] = [NoSocket EXCEPT !.state = "connecting"]]
                /\ serviceSocket' = k
         /\ UNCHANGED serviceConnected

\* SocketService.disconnect()
ServiceDisconnect ==
    IF serviceSocket # 0
    THEN /\ sockets' = [sockets EXCEPT ![serviceSocket].state = "closed"]
         /\ serviceSocket' = 0
         /\ serviceConnected' = FALSE
    ELSE UNCHANGED serviceVars

InitClient ==
    /\ session = NoUser
    /\ user = NoUser
    /\ profile = NoUser
    /\ pending = {"getSession"}
    /\ signOutReturned = FALSE
    /\ sockets = [k \in SocketNumbers |-> NoSocket]
    /\ serviceSocket = 0
    /\ serviceConnected = FALSE

\* The onAuthStateChange callback up to its first await, for an event that
\* carries the session s.
AuthCallback(s) ==
    /\ user' = s
    /\ IF s # NoUser
       THEN /\ pending' = pending \cup {"callback"}
            /\ UNCHANGED <<profile, serviceVars>>
       ELSE /\ profile' = NoUser
            /\ ServiceDisconnect
            /\ UNCHANGED pending

\* The user signs in: Supabase stores the session and emits SIGNED_IN.
SignIn ==
    /\ session = NoUser
    /\ session' = Account
    /\ signOutReturned' = FALSE
    /\ AuthCallback(Account)
    /\ UNCHANGED notClient

\* Supabase refreshes the token of the session and emits TOKEN_REFRESHED.
TokenRefreshed ==
    /\ session # NoUser
    /\ AuthCallback(session)
    /\ UNCHANGED <<session, signOutReturned>>
    /\ UNCHANGED notClient

\* The page is loaded again: a new AuthProvider and a new SocketService; the
\* old page's sockets are gone.  The effect asks for the session and
\* subscribes, and Supabase emits INITIAL_SESSION to the new listener.
Reload ==
    /\ Cardinality(Created) > 0
    /\ user' = session
    /\ profile' = NoUser
    /\ pending' = IF session # NoUser THEN {"getSession", "callback"} ELSE {"getSession"}
    /\ signOutReturned' = FALSE
    /\ sockets' = [k \in SocketNumbers |-> NoSocket]
    /\ serviceSocket' = 0
    /\ serviceConnected' = FALSE
    /\ UNCHANGED session
    /\ UNCHANGED notClient

\* supabase.auth.getSession().then(...)
GetSessionThen ==
    /\ "getSession" \in pending
    /\ user' = session
    /\ IF session # NoUser
       THEN /\ pending' = (pending \ {"getSession"}) \cup {"profile"}
            /\ Connect
       ELSE /\ pending' = pending \ {"getSession"}
            /\ UNCHANGED serviceVars
    /\ UNCHANGED <<session, profile, signOutReturned>>
    /\ UNCHANGED notClient

\* loadOrCreateUserProfile started by getSession().then finishes.
ProfileLoaded(found) ==
    /\ "profile" \in pending
    /\ pending' = pending \ {"profile"}
    /\ profile' = IF found THEN Account ELSE profile
    /\ UNCHANGED <<session, user, signOutReturned, serviceVars>>
    /\ UNCHANGED notClient

\* The onAuthStateChange callback after `await loadOrCreateUserProfile`:
\* connectSocket(session.user).
AuthCallbackResumes(found) ==
    /\ "callback" \in pending
    /\ pending' = pending \ {"callback"}
    /\ profile' = IF found THEN Account ELSE profile
    /\ Connect
    /\ UNCHANGED <<session, user, signOutReturned>>
    /\ UNCHANGED notClient

\* signOut() up to `await Promise.race(...)`.
SignOut ==
    /\ user # NoUser
    /\ "signOut" \notin pending
    /\ ServiceDisconnect
    /\ user' = NoUser
    /\ profile' = NoUser
    /\ pending' = pending \cup {"signOut"}
    /\ UNCHANGED <<session, signOutReturned>>
    /\ UNCHANGED notClient

\* signOut() from the end of the race to its return.  When Supabase signed
\* out, it removed the session and emitted SIGNED_OUT; localStorage.clear()
\* removes the stored session in every case.
SignOutReturns(outcome) ==
    /\ "signOut" \in pending
    /\ session' = NoUser
    /\ signOutReturned' = TRUE
    /\ IF outcome = "signed-out"
       THEN /\ user' = NoUser
            /\ profile' = NoUser
            /\ ServiceDisconnect
            /\ pending' = pending \ {"signOut"}
       ELSE /\ pending' = IF outcome = "timeout"
                          THEN (pending \ {"signOut"}) \cup {"late-sign-out"}
                          ELSE pending \ {"signOut"}
            /\ UNCHANGED <<user, profile, serviceVars>>
    /\ UNCHANGED notClient

\* The Supabase sign-out that lost the race against the timeout ends.
LateSignOut(emitsSignedOut) ==
    /\ "late-sign-out" \in pending
    /\ IF emitsSignedOut
       THEN /\ user' = NoUser
            /\ profile' = NoUser
            /\ ServiceDisconnect
       ELSE UNCHANGED <<user, profile, serviceVars>>
    /\ pending' = pending \ {"late-sign-out"}
    /\ UNCHANGED <<session, signOutReturned>>
    /\ UNCHANGED notClient

\* socket.on('connect'): the handler reads this.socket, which is null when
\* the service dropped its reference, and then throws before the emit.
SocketConnects(k) ==
    /\ sockets[k].state = "connecting"
    /\ sockets' = [sockets EXCEPT ![k].state = "connected",
                                  ![k].userJoinSent = (serviceSocket # 0)]
    /\ serviceConnected' = TRUE
    /\ UNCHANGED <<authVars, serviceSocket>>
    /\ UNCHANGED notClient

\* socket.on('disconnect') for a lost connection; the socket reconnects.
SocketDrops(k) ==
    /\ sockets[k].state = "connected"
    /\ sockets' = [sockets EXCEPT ![k].state = "connecting", ![k].userJoinSent = FALSE]
    /\ serviceConnected' = FALSE
    /\ UNCHANGED <<authVars, serviceSocket>>
    /\ UNCHANGED notClient

\* reconnectionAttempts: 15 used up; the socket stops trying.
SocketGivesUp(k) ==
    /\ sockets[k].state = "connecting"
    /\ sockets' = [sockets EXCEPT ![k].state = "closed"]
    /\ UNCHANGED <<authVars, serviceSocket, serviceConnected>>
    /\ UNCHANGED notClient

NextClient ==
    \/ SignIn
    \/ TokenRefreshed
    \/ Reload
    \/ GetSessionThen
    \/ \E found \in BOOLEAN : ProfileLoaded(found)
    \/ \E found \in BOOLEAN : AuthCallbackResumes(found)
    \/ SignOut
    \/ \E outcome \in {"signed-out", "error", "timeout"} : SignOutReturns(outcome)
    \/ \E e \in BOOLEAN : LateSignOut(e)
    \/ \E k \in SocketNumbers : SocketConnects(k)
    \/ \E k \in SocketNumbers : SocketDrops(k)
    \/ \E k \in SocketNumbers : SocketGivesUp(k)

\* ------------------------------------------- WebRTC signalling of a call
\* The VideoConference components of the clients, their sockets and the
\* relay.  A client is named by the id of its socket.  Events travel in order
\* from a client to the relay (outbox) and from the relay to a client (inbox).
\* ICE candidates are left out: their handler only reads peersRef.
\* VideoConference components opened in all
MaxMounts == 3
Instances == 1..MaxMounts
\* The workspaceId every component here is opened with.
CallRoom == RoomName[1]
\* peer.localDescription of an initiator, and createAnswer()'s result
Offer == "p1"
Answer == "p2"
NoEvent == Event("none", NoArg, NoArg, NoArg)
NoMessage == [event |-> "none", data |-> NoArg]
\* The order in which one handler of the relay calls emit.
EventOrder == <<"video:all-users", "video:user-joined", "video:user-left",
                "video:receive-offer", "video:receive-answer">>
\* No module of the client defines or imports RTCPeerDescription, and no
\* browser provides it: evaluating `new RTCPeerDescription(...)` throws.
RTCPeerDescriptionDefined == FALSE

RECURSIVE SumOfInstances(_)
SumOfInstances(S) ==
    IF S = {}
    THEN 0
    ELSE LET c == CHOOSE x \in S : TRUE
         IN  instances[c] + SumOfInstances(S \ {c})
Mounted == SumOfInstances(SocketIds)

InitSignal ==
    /\ instances = [c \in SocketIds |-> 0]
    /\ conferenceOpen = [c \in SocketIds |-> FALSE]
    /\ mediaPending = {}
    /\ listeners = [c \in SocketIds |-> {}]
    /\ peersRef = [c \in SocketIds |-> [i \in Instances |-> EmptyMap]]
    /\ outbox = [c \in SocketIds |-> << >>]
    /\ inbox = [c \in SocketIds |-> << >>]
    /\ arrived = NoEvent
    /\ offersReceived = {}
    /\ answersDelivered = {}

\* An event a client emits is at the relay before any client takes its next
\* step: a step of a client commutes with the relay handling an event emitted
\* earlier (the handler only appends to inboxes), so every order in which
\* events reach the relay is still produced, by the order of the emitting
\* steps.
Quiet == arrived = NoEvent /\ \A c \in SocketIds : outbox[c] = << >>

\* The client has a VideoConference open whose listeners are on the socket.
InCall(c) == conferenceOpen[c] /\ instances[c] \in listeners[c]

\* socket.emit(type, ...) of SocketService
Emit(c, events) == [outbox EXCEPT ![c] = @ \o events]

\* createPeerConnection(socketId, isInitiator, username) on one peersRef: an
\* id the Map has keeps its peer; a new initiator starts createOffer().  The
\* username only labels the remote video.
CreatePeerConnection(ref, socketId, isInitiator) ==
    IF MapHas(ref, socketId)
    THEN ref
    ELSE MapSet(ref, socketId,
                [isInitiator |-> isInitiator,
                 offer |-> IF isInitiator THEN "creating" ELSE "none"])

\* users.forEach(user => createPeerConnection(user.socketId, true, ...))
RECURSIVE ForEachUser(_, _, _)
ForEachUser(ref, users, k) ==
    IF k > Len(users)
    THEN ref
    ELSE ForEachUser(CreatePeerConnection(ref, users[k].socketId, TRUE), users, k + 1)

\* Dashboard / JoinCall render VideoConference: a new component with its own
\* peersRef; its effect calls startVideoCall(), which awaits getUserMedia.
MountConference(c) ==
    /\ Quiet
    /\ status[c] = "connected"
    /\ ~conferenceOpen[c]
    /\ Mounted < MaxMounts
    /\ instances' = [instances EXCEPT ![c] = @ + 1]
    /\ conferenceOpen' = [conferenceOpen EXCEPT ![c] = TRUE]
    /\ mediaPending' = mediaPending \cup {<<c, instances[c] + 1>>}
    /\ UNCHANGED <<listeners, peersRef, outbox, inbox, arrived, offersReceived,
                   answersDelivered>>
    /\ UNCHANGED notSignal

\* startVideoCall after getUserMedia resolved (the users here grant the camera;
\* StartVideoCallFails is the other outcome): joinVideoRoom(workspaceId),
\* then setupSocketListeners() adds this component's listeners to the socket.
\* Nothing checks that the component is still mounted.
GetUserMediaThen(c, i) ==
    /\ Quiet
    /\ <<c, i>> \in mediaPending
    /\ mediaPending' = mediaPending \ {<<c, i>>}
    /\ outbox' = Emit(c, <<Event("video:join-room", c, CallRoom, NoArg)>>)
    /\ listeners' = [listeners EXCEPT ![c] = @ \cup {i}]
    /\ UNCHANGED <<instances, conferenceOpen, peersRef, inbox, arrived, offersReceived,
                   answersDelivered>>
    /\ UNCHANGED notSignal

\* handleEndCall: cleanup() closes and clears this component's peers and
\* sends video:leave-room; onClose() unmounts the component, whose effect
\* runs cleanup() once more.  No listener is taken off the socket.
HandleEndCall(c) ==
    /\ Quiet
    /\ conferenceOpen[c]
    /\ conferenceOpen' = [conferenceOpen EXCEPT ![c] = FALSE]
    /\ peersRef' = [peersRef EXCEPT ![c][instances[c]] = EmptyMap]
    /\ outbox' = Emit(c, <<Event("video:leave-room", c, CallRoom, NoArg),
                           Event("video:leave-room", c, CallRoom, NoArg)>>)
    /\ UNCHANGED <<instances, mediaPending, listeners, inbox, arrived, offersReceived,
                   answersDelivered>>
    /\ UNCHANGED notSignal

\* createOffer().then(setLocalDescription).then(sendOffer) of an initiator
\* peer that has not been closed.
OfferCreated(c, i, socketId) ==
    /\ Quiet
    /\ MapHas(peersRef[c][i], socketId)
    /\ peersRef[c][i][socketId].offer = "creating"
    /\ peersRef' = [peersRef EXCEPT ![c][i][socketId].offer = "sent"]
    /\ outbox' = Emit(c, <<Event("video:send-offer", c, socketId, Offer)>>)
    /\ UNCHANGED <<instances, conferenceOpen, mediaPending, listeners, inbox, arrived,
                   offersReceived, answersDelivered>>
    /\ UNCHANGED notSignal

\* The next event of a client reaches the relay, which handles one event
\* at a time.
Arrive(c) ==
    /\ arrived = NoEvent
    /\ outbox[c] # << >>
    /\ arrived' = Head(outbox[c])
    /\ outbox' = [outbox EXCEPT ![c] = Tail(@)]
    /\ UNCHANGED <<instances, conferenceOpen, mediaPending, listeners, peersRef, inbox,
                   offersReceived, answersDelivered>>
    /\ UNCHANGED notSignal

\* The relay's handler for the event that arrived (no client here gets as
\* far as emitting video:send-answer).
Handle ==
    \/ \E s \in SocketIds, r \in RoomIds :
          arrived = Event("video:join-room", s, r, NoArg) /\ VideoJoinRoom(s, r)
    \/ \E s \in SocketIds, r \in RoomIds :
          arrived = Event("video:leave-room", s, r, NoArg) /\ VideoLeaveRoom(s, r)
    \/ \E s \in SocketIds, p \in Payloads, to \in Names :
          arrived = Event("video:send-offer", s, to, p) /\ VideoSendOffer(s, p, to)

\* What the handler emitted to client c, in the order of its emit calls.
Emissions(c) ==
    LET hit(ev) == {e \in emitted : e.event = ev /\ c \in e.recipients}
        one(ev) == IF hit(ev) = {}
                   THEN NoMessage
                   ELSE LET e == CHOOSE x \in hit(ev) : TRUE
                        IN  [event |-> e.event, data |-> e.data]
    IN  SelectSeq([k \in DOMAIN EventOrder |-> one(EventOrder[k])],
                  LAMBDA m : m.event # "none")

\* The handler has run (lastEvent is the event that arrived): what it
\* emitted travels to its recipients.  A handler that runs on the same
\* event twice in a row leaves the relay the second time as it was after the
\* first, emissions included, so that second run is no step of its own.
Deliver ==
    /\ arrived # NoEvent
    /\ lastEvent = arrived
    /\ inbox' = [c \in SocketIds |-> inbox[c] \o Emissions(c)]
    /\ arrived' = NoEvent
    /\ answersDelivered' =
         answersDelivered \cup
           UNION {{<<x, e.data.from>> : x \in e.recipients} :
                    e \in {f \in emitted : f.event = "video:receive-answer"}}
    /\ UNCHANGED <<instances, conferenceOpen, mediaPending, listeners, peersRef, outbox,
                   offersReceived>>
    /\ UNCHANGED notSignal

\* The socket calls every listener registered for the event, each with the
\* peersRef of the component that registered it.
EachListener(c, handler(_)) ==
    [peersRef EXCEPT ![c] = [i \in Instances |->
                                IF i \in listeners[c] THEN handler(@[i]) ELSE @[i]]]

\* socketService.onVideoAllUsers
OnVideoAllUsers(c) ==
    /\ Quiet
    /\ inbox[c] # << >>
    /\ Head(inbox[c]).event = "video:all-users"
    /\ LET users == Head(inbox[c]).data
           handler(ref) == ForEachUser(ref, users, 1)
       IN  peersRef' = EachListener(c, handler)
    /\ inbox' = [inbox EXCEPT ![c] = Tail(@)]
    /\ UNCHANGED <<instances, conferenceOpen, mediaPending, listeners, outbox, arrived,
                   offersReceived, answersDelivered>>
    /\ UNCHANGED notSignal

\* socketService.onVideoUserJoined
OnVideoUserJoined(c) ==
    /\ Quiet
    /\ inbox[c] # << >>
    /\ Head(inbox[c]).event = "video:user-joined"
    /\ LET userData == Head(inbox[c]).data
           handler(ref) == CreatePeerConnection(ref, userData.socketId, FALSE)
       IN  peersRef' = EachListener(c, handler)
    /\ inbox' = [inbox EXCEPT ![c] = Tail(@)]
    /\ UNCHANGED <<instances, conferenceOpen, mediaPending, listeners, outbox, arrived,
                   offersReceived, answersDelivered>>
    /\ UNCHANGED notSignal

\* socketService.onVideoUserLeft: the peer of that id is closed and deleted.
OnVideoUserLeft(c) ==
    /\ Quiet
    /\ inbox[c] # << >>
    /\ Head(inbox[c]).event = "video:user-left"
    /\ LET userData == Head(inbox[c]).data
           handler(ref) == IF MapHas(ref, userData.socketId)
                           THEN MapDelete(ref, userData.socketId)
                           ELSE ref
       IN  peersRef' = EachListener(c, handler)
    /\ inbox' = [inbox EXCEPT ![c] = Tail(@)]
    /\ UNCHANGED <<instances, conferenceOpen, mediaPending, listeners, outbox, arrived,
                   offersReceived, answersDelivered>>
    /\ UNCHANGED notSignal

\* socketService.onReceiveOffer: createPeerConnection(from, false, username),
\* then `new RTCPeerDescription(offer)`; the statements after it, which end
\* in sendAnswer(answer, from), run only where that constructor exists.
OnReceiveOffer(c) ==
    /\ Quiet
    /\ inbox[c] # << >>
    /\ Head(inbox[c]).event = "video:receive-offer"
    /\ LET from == Head(inbox[c]).data.from
           handler(ref) == CreatePeerConnection(ref, from, FALSE)
           answers == [k \in 1..Cardinality(listeners[c]) |->
                          Event("video:send-answer", c, from, Answer)]
       IN  /\ peersRef' = EachListener(c, handler)
           /\ outbox' = IF RTCPeerDescriptionDefined THEN Emit(c, answers) ELSE outbox
    /\ inbox' = [inbox EXCEPT ![c] = Tail(@)]
    /\ offersReceived' = IF InCall(c)
                         THEN offersReceived \cup {<<c, Head(inbox[c]).data.from>>}
                         ELSE offersReceived
    /\ UNCHANGED <<instances, conferenceOpen, mediaPending, listeners, arrived,
                   answersDelivered>>
    /\ UNCHANGED notSignal

NextSignal ==
    \/ \E c \in SocketIds : Connection(c)
    \/ \E c \in SocketIds : MountConference(c)
    \/ \E c \in SocketIds, i \in Instances : GetUserMediaThen(c, i)
    \/ \E c \in SocketIds : HandleEndCall(c)
    \/ \E c \in SocketIds, i \in Instances, d \in SocketIds : OfferCreated(c, i, d)
    \/ \E c \in SocketIds : Arrive(c)
    \/ Handle
    \/ Deliver
    \/ \E c \in SocketIds : OnVideoAllUsers(c)
    \/ \E c \in SocketIds : OnVideoUserJoined(c)
    \/ \E c \in SocketIds : OnVideoUserLeft(c)
    \/ \E c \in SocketIds : OnReceiveOffer(c)


\* The project as supabase_setup.sql sets it up.
Init == InitRelay /\ InitCall /\ InitJoin /\ InitClient /\ InitSignal /\ rls

\* The handlers that manage connections and room membership.
NextRooms ==
    \/ \E s \in SocketIds : Connection(s)
    \/ \E s \in SocketIds, u \in UserData : UserJoin(s, u)
    \/ \E s \in SocketIds, r \in RoomIds : ChatJoinRoom(s, r)
    \/ \E s \in SocketIds, r \in RoomIds : ChatLeaveRoom(s, r)
    \/ \E s \in SocketIds, r \in RoomIds : VideoJoinRoom(s, r)
    \/ \E s \in SocketIds, r \in RoomIds : VideoLeaveRoom(s, r)
    \/ \E s \in SocketIds, rec \in BOOLEAN : Disconnect(s, rec)
    \/ \E s \in SocketIds : Recovery(s)

\* The handlers that forward a client's payload, with the membership handlers
\* that shape the rooms they forward into (clients here close their own
\* connection, so no session is kept for recovery).
NextForward ==
    \/ \E s \in SocketIds : Connection(s)
    \/ \E s \in SocketIds, u \in UserData : UserJoin(s, u)
    \/ \E s \in SocketIds, r \in RoomIds : ChatJoinRoom(s, r)
    \/ \E s \in SocketIds, r \in RoomIds : ChatLeaveRoom(s, r)
    \/ \E s \in SocketIds, r \in RoomIds : VideoJoinRoom(s, r)
    \/ \E s \in SocketIds, r \in RoomIds : VideoLeaveRoom(s, r)
    \/ \E s \in SocketIds : Disconnect(s, FALSE)
    \/ \E s \in SocketIds, r \in RoomIds, m \in Payloads, u \in UserData \cup {NoSender} :
          ChatSendMessage(s, r, m, u)
    \/ \E s \in SocketIds, p \in Payloads, to \in Names : VideoSendOffer(s, p, to)
    \/ \E s \in SocketIds, p \in Payloads, to \in Names : VideoSendAnswer(s, p, to)
    \/ \E s \in SocketIds, p \in Payloads, to \in Names : VideoIceCandidate(s, p, to)

Next == NextRooms \/ NextForward

\* Every handler of the relay.
Spec == Init /\ [][Next]_vars
\* The forwarding handlers write only lastEvent and emitted, which every
\* handler overwrites and none reads: leaving them out changes neither the
\* reachable maps and rooms nor any step of a membership handler.
SpecRooms == Init /\ [][NextRooms]_vars
SpecForward == Init /\ [][NextForward]_vars
\* The chat membership handlers with room ids the relay does not restrict:
\* a client may name any string, also the id of another socket.
NextAnyRoomId ==
    \/ \E s \in SocketIds : Connection(s)
    \/ \E s \in SocketIds, n \in Names : ChatJoinRoom(s, n)
    \/ \E s \in SocketIds, n \in Names : ChatLeaveRoom(s, n)
    \/ \E s \in SocketIds : Disconnect(s, FALSE)
SpecAnyRoomId == Init /\ [][NextAnyRoomId]_vars
\* VideoConference and JoinCall in two browsers.
SpecCall == Init /\ [][NextCall]_vars
\* JoinWorkspace in two tabs, against a project with or without the policies
\* (the project is the one VITE_SUPABASE_URL names).
InitAnyProject == InitRelay /\ InitCall /\ InitJoin /\ InitClient /\ InitSignal
SpecJoin == InitAnyProject /\ [][NextJoin]_vars
\* AuthProvider and SocketService of one page.
SpecClient == Init /\ [][NextClient]_vars
\* Two clients that open and end calls in one room.  A client's event loop
\* runs every callback that is due and the transport delivers every event,
\* so no step that stays possible is put off for ever.
SpecSignal == Init /\ [][NextSignal]_vars /\ WF_vars(NextSignal)

\* ------------------------------------------------------------ properties
\* chatRooms[r] / videoRooms[r] as a set: empty when the map has no such key.
Members(M, r) == IF MapHas(M, r) THEN M[r] ELSE {}
\* The sockets an event of the last handler was delivered to.
Receivers(event, room) ==
    UNION {e.recipients : e \in {x \in emitted : x.event = event /\ x.room = room}}
SignalTypes == {"video:send-offer", "video:send-answer", "video:ice-candidate"}
ForwardTypes == SignalTypes \cup {"chat:send-message"}

\* C1: when the relay handles chat:send-message for room r, chat:receive-message
\* is delivered to every socket that is in chatRooms[r], whatever chat or video
\* joins and leaves came before.
C1_MessageReachesEveryMember ==
    lastEvent.type = "chat:send-message" =>
        Members(chatRooms, lastEvent.arg)
            \subseteq Receivers("chat:receive-message", lastEvent.arg)

\* C2: once the relay has handled a socket's disconnect, that socket id is in no
\* set of chatRooms, in no set of videoRooms, and has no entry in activeUsers.
C2_DisconnectRemovesMembership ==
    \A s \in SocketIds :
        status[s] = "closed" =>
            /\ \A r \in DOMAIN chatRooms : ~SetHas(chatRooms[r], s)
            /\ \A r \in DOMAIN videoRooms : ~SetHas(videoRooms[r], s)
            /\ ~MapHas(activeUsers, s)
\* A socket that was registered and in a chat and a video room has just
\* disconnected: the handler announced both departures under its user id.
C2_Witness ==
    /\ lastEvent.type = "disconnect"
    /\ \E e \in emitted : e.event = "chat:user-left" /\ e.data.userId # Undefined
    /\ \E e \in emitted : e.event = "video:user-left" /\ e.data.userId # Undefined

C4_DepartureStep(s) ==
    \A r \in RoomIds :
        /\ IF s \in Members(chatRooms, r)
           THEN \A m \in Members(chatRooms, r) \ {s} :
                    Cardinality({e \in emitted' : /\ e.event = "chat:user-left"
                                                  /\ e.room = r
                                                  /\ m \in e.recipients}) = 1
           ELSE ~\E e \in emitted' : e.event = "chat:user-left" /\ e.room = r
        /\ IF s \in Members(videoRooms, r)
           THEN \A m \in Members(videoRooms, r) \ {s} :
                    Cardinality({e \in emitted' : /\ e.event = "video:user-left"
                                                  /\ e.room = r
                                                  /\ e.data.socketId = s
                                                  /\ m \in e.recipients}) = 1
           ELSE ~\E e \in emitted' : e.event = "video:user-left" /\ e.room = r
C4_DisconnectNotifiesMembers ==
    [][\A s \in SocketIds :
          (status[s] = "connected" /\ status'[s] = "closed") => C4_DepartureStep(s)]_vars

\* C5: on chat:join-room r from socket s, s is in chatRooms[r] afterwards,
\* chat:user-joined is delivered to every other socket in chatRooms[r], and it
\* is not delivered to s itself.
C5_JoinNotifiesOthers ==
    lastEvent.type = "chat:join-room" =>
        /\ lastEvent.socket \in Members(chatRooms, lastEvent.arg)
        /\ Members(chatRooms, lastEvent.arg) \ {lastEvent.socket}
              \subseteq Receivers("chat:user-joined", lastEvent.arg)
        /\ lastEvent.socket \notin Receivers("chat:user-joined", lastEvent.arg)

\* C6: on video:join-room r from socket s, the video:all-users list sent to s
\* holds exactly the socket ids of videoRooms[r] other than s, each once, never
\* s itself and never a socket that disconnected or sent video:leave-room r.
C6_AllUsersList ==
    lastEvent.type = "video:join-room" =>
        /\ \E e \in emitted : e.event = "video:all-users" /\ lastEvent.socket \in e.recipients
        /\ \A e \in emitted :
              e.event = "video:all-users" =>
                LET listed == {e.data[i].socketId : i \in DOMAIN e.data}
                IN  /\ listed = Members(videoRooms, lastEvent.arg) \ {lastEvent.socket}
                    /\ Len(e.data) = Cardinality(listed)
                    /\ lastEvent.socket \notin listed
                    /\ \A id \in listed : /\ status[id] = "connected"
                                          /\ lastEvent.arg \in videoJoined[id]
\* A socket joins a video room that holds another, registered socket: the
\* list it is sent names that one member with its user id.
C6_Witness ==
    /\ lastEvent.type = "video:join-room"
    /\ \E e \in emitted : /\ e.event = "video:all-users"
                           /\ lastEvent.socket \in e.recipients
                           /\ Len(e.data) = 1
                           /\ e.data[1].userId # Undefined

\* C7: on video:join-room r from socket s, video:user-joined naming s is
\* delivered to every socket already in videoRooms[r], hence to every socket
\* listed in the video:all-users sent to s.
C7_JoinNotifiesListed ==
    lastEvent.type = "video:join-room" =>
        \A m \in Members(videoRooms, lastEvent.arg) \ {lastEvent.socket} :
            \E e \in emitted : /\ e.event = "video:user-joined"
                               /\ e.data.socketId = lastEvent.socket
                               /\ m \in e.recipients

\* C8: a video:send-offer, video:send-answer or video:ice-candidate with target
\* `to` is delivered only to the single socket whose id is `to`, for every
\* value of `to`.
C8_SignalOnlyToTarget ==
    lastEvent.type \in SignalTypes =>
        \A e \in emitted : e.recipients \subseteq {lastEvent.arg}

\* C9: every forwarded signaling message carries the payload unchanged and a
\* `from` equal to the id of the socket that sent it.
C9_SignalPayloadAndFrom ==
    lastEvent.type \in SignalTypes =>
        /\ emitted # {}
        /\ \A e \in emitted :
              /\ e.event = (CASE lastEvent.type = "video:send-offer" -> "video:receive-offer"
                              [] lastEvent.type = "video:send-answer" -> "video:receive-answer"
                              [] OTHER -> "video:ice-candidate")
              /\ e.data.payload = lastEvent.payload
              /\ e.data.from = lastEvent.socket
\* An answer has been relayed to another connected socket.
C9_Witness ==
    /\ lastEvent.type = "video:send-answer"
    /\ lastEvent.payload = "p2"
    /\ \E e \in emitted : lastEvent.arg \in e.recipients /\ lastEvent.arg # lastEvent.socket

\* C10: handling chat:send-message, video:send-offer, video:send-answer or
\* video:ice-candidate leaves activeUsers, chatRooms and videoRooms unchanged.
C10_ForwardingStoresNothing ==
    [][lastEvent'.type \in ForwardTypes =>
          UNCHANGED <<activeUsers, chatRooms, videoRooms>>]_vars
\* A chat message has been forwarded to a member of a room the maps know,
\* sent by a registered socket that is not itself in the room.
C10_Witness ==
    /\ lastEvent.type = "chat:send-message"
    /\ MapHas(activeUsers, lastEvent.socket)
    /\ lastEvent.socket \notin Members(chatRooms, lastEvent.arg)
    /\ Receivers("chat:receive-message", lastEvent.arg) # {}

\* C18: chatRooms and videoRooms hold no room whose member set is empty, so the
\* chatRooms and videoRooms counts of GET / are the numbers of rooms with at
\* least one member, and its activeUsers count is the number of connected
\* sockets that sent user:join.
C18_NoEmptyRoomKept ==
    /\ \A r \in DOMAIN chatRooms : SetSize(chatRooms[r]) > 0
    /\ \A r \in DOMAIN videoRooms : SetSize(videoRooms[r]) > 0
    /\ GetRoot.chatRooms = Cardinality({r \in RoomIds : Members(chatRooms, r) # {}})
    /\ GetRoot.videoRooms = Cardinality({r \in RoomIds : Members(videoRooms, r) # {}})
    /\ GetRoot.activeUsers =
          Cardinality({s \in SocketIds : status[s] = "connected" /\ s \in userJoined})

ChatEvents == {"chat:receive-message", "chat:user-joined", "chat:user-left"}
VideoRoomEvents == {"video:user-joined", "video:user-left"}
\* C19: chat events for room id r are delivered only to sockets in
\* chatRooms[r] and video room events only to sockets in videoRooms[r], also
\* when a chat room and a video room use the same id.
C19_EventsStayInTheirRoom ==
    \A e \in emitted :
        /\ e.event \in ChatEvents => e.recipients \subseteq Members(chatRooms, e.room)
        /\ e.event \in VideoRoomEvents => e.recipients \subseteq Members(videoRooms, e.room)

\* C20: for every room id r the sockets subscribed to the Socket.io room r are
\* exactly chatRooms[r] union videoRooms[r]; a leave of one kind does not
\* unsubscribe a socket that is still in the room of the other kind.
C20_SubscribersAreMembers ==
    \A r \in RoomIds : rooms[r] = Members(chatRooms, r) \cup Members(videoRooms, r)

C13_GuestJoinsHostRoom ==
    \A h \in Browsers : \A g \in Browsers \ {h} :
        (/\ conference[h].joinedRoom # Null
         /\ callPage[h].state = "none"
         /\ callPage[g].state = "video"
         /\ callPage[g].url = conference[h].inviteLink
         /\ conference[g].joinedRoom # Null)
            => conference[g].joinedRoom = conference[h].joinedRoom

\* The page of tab t was opened from a link a dashboard generated.
OpenedIssuedLink(t) ==
    \E l \in issuedLinks :
        /\ SearchParamsGet(l, "workspace") = joinPage[t].workspaceId
        /\ SearchParamsGet(l, "code") = joinPage[t].inviteCode
\* C14: under the policies of supabase_setup.sql, a signed-in user who is not
\* yet a member and opens a well-formed invitation link of an existing
\* workspace ends with the success status and a workspace_members row of role
\* 'member' for that workspace.
C14_NonMemberEndsAsMember ==
    \A t \in Tabs :
        (/\ rls
         /\ joinPage[t].pc = "done"
         /\ joinPage[t].user # NoUser
         /\ OpenedIssuedLink(t)
         /\ ~joinPage[t].wasMember)
            => /\ joinPage[t].status = "success"
               /\ \E m \in workspace_members :
                     /\ m.workspace_id = joinPage[t].workspaceId[1]
                     /\ m.user_id = joinPage[t].user
                     /\ m.role = "member"

C16_OneRowPerPair ==
    \A w \in WorkspaceIds, u \in Users :
        Cardinality({m \in workspace_members : m.workspace_id = w /\ m.user_id = u}) <= 1
\* Two tabs of one user ran JoinWorkspace for one workspace at once: both
\* passed the membership check, one insert went in, the other was rejected.
C16_Witness ==
    \E t1 \in Tabs : \E t2 \in Tabs \ {t1} :
        /\ joinPage[t1].user = joinPage[t2].user
        /\ joinPage[t1].workspaceId = joinPage[t2].workspaceId
        /\ joinPage[t1].message = "joined"
        /\ joinPage[t2].message = "add-error"
        /\ C16_OneRowPerPair

\* C12: for any sequence of connect() and disconnect() calls, also connect()
\* called again before the first connection is established, at most one
\* socket created by the service is alive at any time.
C12_AtMostOneSocketAlive ==
    Cardinality({k \in SocketNumbers : Alive(k)}) <= 1

\* C17: once signOut() has returned and nobody signs in again, the client
\* holds no Socket.io connection and user and profile are null, whatever the
\* outcome of the Supabase sign-out and whatever callback was in flight.
C17_SignedOutMeansGone ==
    (signOutReturned /\ pending = {}) =>
        /\ \A k \in SocketNumbers : ~Alive(k)
        /\ user = NoUser
        /\ profile = NoUser

\* The chat:room-joined replies of the last handler.
RoomJoinedReplies == {e \in emitted : e.event = "chat:room-joined"}
\* C21: the chat:room-joined reply is sent only to the joining socket and its
\* userCount is the number of sockets in chatRooms[r], the joiner included;
\* a chat:join-room r repeated by a member leaves chatRooms unchanged (and so
\* reports the same userCount).
C21_RoomJoinedReply ==
    [][lastEvent'.type = "chat:join-room" =>
          LET s == lastEvent'.socket
              r == lastEvent'.arg
          IN  /\ \A e \in RoomJoinedReplies' :
                    /\ e.recipients \subseteq {s}
                    /\ e.data.roomId = r
                    /\ e.data.userCount = Cardinality(Members(chatRooms', r))
              /\ s \in Members(chatRooms', r)
              /\ s \in Members(chatRooms, r) => chatRooms' = chatRooms]_vars

\* ------------------------------------------------- signalling properties
\* C22: whenever a client in a call has received video:receive-offer from
\* socket X, it eventually emits video:send-answer addressed to X and the
\* relay delivers that answer to X (an event video:receive-answer from the
\* client reaches X).
C22_OfferIsAnswered ==
    \A c \in SocketIds : \A x \in SocketIds :
        (<<c, x>> \in offersReceived) ~> (<<x, c>> \in answersDelivered)

\* The open peer connections client c holds for the remote socket id d: one
\* for each peersRef that has the id.
PeerConnections(c, d) == {i \in Instances : MapHas(peersRef[c][i], d)}
\* Those among them that c created as initiator: each sends one offer to d.
OffersTo(c, d) == {i \in PeerConnections(c, d) : peersRef[c][i][d].isInitiator}

\* C23: of two clients of one video room the later joiner sends its offer
\* once for each id in its video:all-users, the earlier member sends none,
\* and a client holds at most one peer connection per remote socket id.
C23_OneOfferOnePeer ==
    \A c \in SocketIds : \A d \in SocketIds \ {c} :
        /\ Cardinality(PeerConnections(c, d)) <= 1
        /\ Cardinality(OffersTo(c, d)) <= 1

====
